---------------------------- MODULE Spec2Model ----------------------------
(***************************************************************************)
(* A model of ytm-dumper: the two record sources of database_parser.py     *)
(* (EntityStore, OfflineVideoDb), the FNV hash of exo_decrypt.py, the      *)
(* cache index parser of cache_parser.py and the per-video loop of cli.py. *)
(*                                                                         *)
(* Each part has a specification of its own (SpecDb, SpecFnv, SpecCache,   *)
(* SpecMain); the variables of the other parts stay at their idle values.  *)
(*                                                                         *)
(* blackboxprotobuf, sqlite3, cryptography and adb are libraries outside   *)
(* the repository.  A stored blob is modelled by what the decoder makes of *)
(* it (whether the hinted and the raw decode succeed, and the message);    *)
(* messages that decode carry the fields the code reads, in the shapes the *)
(* decoder delivers them (a repeated field as a list, a field occurring    *)
(* once as a bare value).                                                  *)
(***************************************************************************)
EXTENDS Integers, Sequences, FiniteSets, TLC

VARIABLES
    \* ---- database_parser.py ----
    mode,        \* which source runs: "entity_store" or "offline_db"
    db_pc,       \* "load", "iter", "done", "load_crash", "iter_crash"
    db_error,    \* the exception that ended the run, "" when none
    data,        \* self.data: identifier -> entry (NoEntry when the key is absent)
    order,       \* insertion order of self.data's keys (dict iteration order)
    nrows,       \* rows fetched so far
    it,          \* position of __iter__ in order
    out,         \* the Videos yielded so far
    printed,     \* decode errors printed by decode_protobuf_message
    rows_ok,     \* history: Source B rows whose two records both decoded
    incomplete,  \* history: identifiers __iter__ passed over as incomplete
    \* ---- exo_decrypt.py: fnv1a ----
    fnv_data,    \* the bytes hashed
    fnv_i,       \* bytes consumed so far
    fnv_res,     \* res, a 64-bit value as 8 bytes, least significant first
    fnv_pc,      \* "loop", "done"
    \* ---- cache_parser.py: CacheIdxParser ----
    ci_body,     \* history: the entries the index file was written from
    ci_tamper,   \* history: how the file departs from the encoding of ci_body
    ci_file,     \* contents: the bytes of cached_content_index.exi
    ci_key,      \* key
    ci_pc,       \* "new", "loaded" (the constructor returned), "error" (it raised)
    ci_error,    \* the exception the constructor raised, "" when none
    ci_plain,    \* self.contents
    ci_offset,   \* self.offset
    ci_entries,  \* self.entries
    ci_result,   \* what the last __getitem__ did
    \* ---- cli.py: main, process_video, find_filename ----
    m_videos,    \* videos: the Videos of both sources, as chained
    m_sorted,    \* sorted(videos, key=lambda v: v.timestamp)
    m_idx,       \* position of main's loop in m_sorted
    m_pc,        \* "start", "sort", "loop", "find", "write", "done", "crash"
    m_error,     \* the exception that ended the run, "" when none
    m_list,      \* args.list
    m_metadata,  \* args.metadata
    m_dest_ok,   \* whether the directory args.dest exists
    m_cache_idx, \* cache_idx: "unset", "None" or "loaded"
    m_fn,        \* find_filename's filename and ext
    m_data,      \* process_video's data list: whether it holds the media
    m_hist       \* history of the run: what was done for which video

dbvars == <<mode, db_pc, db_error, data, order, nrows, it, out, printed,
            rows_ok, incomplete>>
fnvvars == <<fnv_data, fnv_i, fnv_res, fnv_pc>>
civars == <<ci_body, ci_tamper, ci_file, ci_key, ci_pc, ci_error, ci_plain,
            ci_offset, ci_entries, ci_result>>

mvars == <<m_videos, m_sorted, m_idx, m_pc, m_error, m_list, m_metadata,
           m_dest_ok, m_cache_idx, m_fn, m_data, m_hist>>

vars == <<dbvars, fnvvars, civars, mvars>>

-----------------------------------------------------------------------------
(* Bounds *)

MaxRows == 3
MaxCovers == 2
MaxData == 3
MaxItems == 3
MaxVideos == 2
MaxName == 9
NameMax == 8

-----------------------------------------------------------------------------
(* database_parser.py: constants and data *)

VIDEO_DETAILS == 119
CACHE_ELEMENT == 198
OTHER_TYPE == 120

Ids == {"a", "b"}
Timestamps == {1000}

\* cover candidates: url and size (field "2" in Source A, "height" in Source B)
\* the url of a candidate names its place in the field, so that equal sizes
\* stay distinguishable
Sizes == {120, 480}
CandidateLists(n) ==
    {[i \in 1..n |-> [url |-> i, size |-> z[i]]] : z \in [1..n -> Sizes]}

\* the cover field as the decoder delivers it: one occurrence is a bare
\* candidate (list = FALSE), a repeated field is a list
CoverFields ==
    {[list |-> FALSE, items |-> s] : s \in CandidateLists(1)}
    \cup {[list |-> TRUE, items |-> s] :
             s \in UNION {CandidateLists(n) : n \in 1..MaxCovers}}

Mp4Stream == [itag |-> 140, timestamp |-> 5, mime_type |-> "audio/mp4"]
WebmStream == [itag |-> 251, timestamp |-> 5, mime_type |-> "audio/webm"]

\* messages
EmptyMsg == [kind |-> "empty"]
DetailsMsgs == {[kind |-> "details", title |-> "t", covers |-> c] : c \in CoverFields}
\* Source A's cache element: field "2" once, or repeated
CacheMsgs ==
    {[kind |-> "cache", list |-> FALSE, items |-> <<Mp4Stream>>],
     [kind |-> "cache", list |-> TRUE, items |-> <<WebmStream, Mp4Stream>>]}
StreamMsgs == {[kind |-> "stream", fs |-> Mp4Stream]}

\* a stored blob, by what blackboxprotobuf makes of it
Blob(m) == [hinted |-> TRUE, rawok |-> TRUE, msg |-> m]
MismatchBlob == [hinted |-> FALSE, rawok |-> TRUE, msg |-> EmptyMsg]
GarbageBlob == [hinted |-> FALSE, rawok |-> FALSE, msg |-> EmptyMsg]
BadBlobs == {MismatchBlob, GarbageBlob}

NoEntry == [kind |-> "absent"]
NoMsg == [kind |-> "none"]

\* decode_protobuf_message: the message; None (after printing) when even the
\* raw decode fails; RuntimeError when only the hinted decode fails
decode_protobuf_message(blob) ==
    IF blob.hinted THEN [kind |-> "msg", msg |-> blob.msg, prints |-> 0]
    ELSE IF ~blob.rawok THEN [kind |-> "none", msg |-> NoMsg, prints |-> 1]
    ELSE [kind |-> "raise", msg |-> NoMsg, prints |-> 0]

\* truthiness of what decode_protobuf_message returned
Truthy(m) == m.kind \notin {"none", "empty"}

\* max(seq, key=size): a left-to-right scan keeping the first largest element
RECURSIVE MaxScan(_, _, _)
MaxScan(s, i, best) ==
    IF i > Len(s) THEN best
    ELSE MaxScan(s, i + 1, IF s[i].size > best.size THEN s[i] ELSE best)

RECURSIVE MaxScanLast(_, _, _)
MaxScanLast(s, i, best) ==
    IF i > Len(s) THEN best
    ELSE MaxScanLast(s, i + 1, IF s[i].size >= best.size THEN s[i] ELSE best)

PyMaxMutant(s) == MaxScanLast(s, 2, s[1])

PyMax(s) == MaxScan(s, 2, s[1])

Video(k, fs, title, cover_url, ts) ==
    [id |-> k, cache_key |-> <<k, fs.itag, fs.timestamp>>, title |-> title,
     cover_url |-> cover_url, mime |-> fs.mime_type, timestamp |-> ts]

\* an uncaught exception ends the run; stage is "load_crash" (raised by the
\* constructor) or "iter_crash" (raised by __iter__)
Crash(stage, err) ==
    /\ db_pc' = stage
    /\ db_error' = err

-----------------------------------------------------------------------------
(* EntityStore (Source A) *)

KeyBlobs == {Blob([kind |-> "key", key |-> k]) : k \in Ids} \cup BadBlobs

EsRows ==
    [key : KeyBlobs, data_type : {VIDEO_DETAILS},
     entity : {Blob(m) : m \in DetailsMsgs \cup {EmptyMsg}} \cup BadBlobs,
     ts : Timestamps]
    \cup [key : KeyBlobs, data_type : {CACHE_ELEMENT},
          entity : {Blob(m) : m \in CacheMsgs \cup {EmptyMsg}} \cup BadBlobs,
          ts : Timestamps]
    \cup [key : KeyBlobs, data_type : {OTHER_TYPE}, entity : {GarbageBlob},
          ts : Timestamps]

EsEntry(details, cache, ts) ==
    [kind |-> "entry", details |-> details, cache |-> cache, timestamp |-> ts]

\* entry = data.setdefault(key, {}); entry[data_type] = message;
\* if data_type == VIDEO_DETAILS: entry["timestamp"] = timestamp
EsStore(old, data_type, message, ts) ==
    LET e == IF old.kind = "absent" THEN EsEntry(NoMsg, NoMsg, 0) ELSE old
    IN IF data_type = VIDEO_DETAILS
       THEN [e EXCEPT !.details = message, !.timestamp = ts]
       ELSE [e EXCEPT !.cache = message]

\* one pass of the loop over the fetched rows in EntityStore.__init__
EsLoadRow(row) ==
    /\ mode = "entity_store"
    /\ db_pc = "load"
    /\ nrows < MaxRows
    /\ nrows' = nrows + 1
    /\ UNCHANGED <<mode, it, out, rows_ok, incomplete>>
    /\ IF row.data_type \notin {VIDEO_DETAILS, CACHE_ELEMENT}
       THEN UNCHANGED <<db_pc, db_error, data, order, printed>>
       ELSE LET kd == decode_protobuf_message(row.key) IN
            IF kd.kind # "msg"
            THEN \* None["key"] is a TypeError, a mismatch a RuntimeError; both re-raised
                 /\ Crash("load_crash", IF kd.kind = "none" THEN "TypeError" ELSE "RuntimeError")
                 /\ printed' = printed + kd.prints
                 /\ UNCHANGED <<data, order>>
            ELSE LET k == kd.msg.key
                     md == decode_protobuf_message(row.entity)
                 IN IF md.kind = "raise"
                    THEN /\ Crash("load_crash", "RuntimeError")
                         /\ UNCHANGED <<data, order, printed>>
                    ELSE /\ printed' = printed + md.prints
                         /\ UNCHANGED <<db_pc, db_error>>
                         /\ IF Truthy(md.msg)
                            THEN /\ data' = [data EXCEPT ![k] =
                                        EsStore(data[k], row.data_type, md.msg, row.ts)]
                                 /\ order' = IF data[k].kind = "absent"
                                             THEN Append(order, k) ELSE order
                            ELSE UNCHANGED <<data, order>>

\* the rows are exhausted: the constructor returns and iteration starts
EsLoadEnd ==
    /\ mode = "entity_store"
    /\ db_pc = "load"
    /\ db_pc' = "iter"
    /\ UNCHANGED <<mode, db_error, data, order, nrows, it, out, printed,
                   rows_ok, incomplete>>

EsSkipsMutant(v) == v.details.kind = "none"

\* whether __iter__ passes over the entry (lines 137 and 142)
EsSkips(v) == v.details.kind = "none" \/ v.cache.kind = "none"

\* cover_url = max(details["25"]["1"], key=lambda x: x["2"])["1"]; over a bare
\* candidate max iterates the dict's keys and the key function raises TypeError
EsCover(details) ==
    IF details.covers.list
    THEN [ok |-> TRUE, url |-> PyMax(details.covers.items).url]
    ELSE [ok |-> FALSE, url |-> ""]

\* one pass of the loop of EntityStore.__iter__
EsIterStep ==
    /\ mode = "entity_store"
    /\ db_pc = "iter"
    /\ it <= Len(order)
    /\ UNCHANGED <<mode, data, order, nrows, printed, rows_ok>>
    /\ LET k == order[it]
           v == data[k]
       IN IF EsSkips(v)
          THEN /\ it' = it + 1
               /\ incomplete' = incomplete \cup {k}
               /\ UNCHANGED <<db_pc, db_error, out>>
          ELSE LET stream == v.cache.items[1]
                   cover == EsCover(v.details)
               IN IF v.details.kind = "none" \/ v.cache.kind = "none"
                  THEN \* a subscript of a key that is not in the entry
                       /\ Crash("iter_crash", "KeyError")
                       /\ UNCHANGED <<it, out, incomplete>>
                  ELSE IF ~cover.ok
                  THEN /\ Crash("iter_crash", "TypeError")
                       /\ UNCHANGED <<it, out, incomplete>>
                  ELSE /\ out' = Append(out, Video(k, stream, v.details.title,
                                                   cover.url, v.timestamp))
                       /\ it' = it + 1
                       /\ UNCHANGED <<db_pc, db_error, incomplete>>

\* the loop of __iter__ ends
DbIterEnd ==
    /\ db_pc = "iter"
    /\ it > Len(order)
    /\ db_pc' = "done"
    /\ UNCHANGED <<mode, db_error, data, order, nrows, it, out, printed,
                   rows_ok, incomplete>>

-----------------------------------------------------------------------------
(* OfflineVideoDb (Source B) *)

OffRows ==
    [key : Ids,
     video : {Blob(m) : m \in DetailsMsgs} \cup BadBlobs,
     stream : {Blob(m) : m \in StreamMsgs} \cup BadBlobs,
     ts : Timestamps]

OffEntry(video, stream, ts) ==
    [kind |-> "entry", video |-> video, stream |-> stream, timestamp |-> ts]

\* one pass of the loop over the joined rows in OfflineVideoDb.__init__
OffLoadRow(row) ==
    /\ mode = "offline_db"
    /\ db_pc = "load"
    /\ nrows < MaxRows
    /\ nrows' = nrows + 1
    /\ UNCHANGED <<mode, it, out, incomplete>>
    /\ LET vd == decode_protobuf_message(row.video) IN
       IF vd.kind = "raise"
       THEN /\ Crash("load_crash", "RuntimeError")
            /\ UNCHANGED <<data, order, printed, rows_ok>>
       ELSE LET sd == decode_protobuf_message(row.stream) IN
            IF sd.kind = "raise"
            THEN /\ Crash("load_crash", "RuntimeError")
                 /\ printed' = printed + vd.prints
                      /\ UNCHANGED <<data, order, rows_ok>>
            ELSE /\ data' = [data EXCEPT ![row.key] = OffEntry(vd.msg, sd.msg, row.ts)]
                 /\ order' = IF data[row.key].kind = "absent"
                             THEN Append(order, row.key) ELSE order
                 /\ printed' = printed + vd.prints + sd.prints
                 /\ rows_ok' = IF vd.kind = "msg" /\ sd.kind = "msg"
                               THEN rows_ok + 1 ELSE rows_ok
                 /\ UNCHANGED <<db_pc, db_error>>

OffLoadEnd ==
    /\ mode = "offline_db"
    /\ db_pc = "load"
    /\ db_pc' = "iter"
    /\ UNCHANGED <<mode, db_error, data, order, nrows, it, out, printed,
                   rows_ok, incomplete>>

\* if not isinstance(covers, list): covers = [covers]
\* cover_url = max(covers, key=lambda x: x["height"])["url"]
OffCover(details) == PyMax(details.covers.items).url

\* one pass of the loop of OfflineVideoDb.__iter__
OffIterStep ==
    /\ mode = "offline_db"
    /\ db_pc = "iter"
    /\ it <= Len(order)
    /\ UNCHANGED <<mode, data, order, nrows, printed, rows_ok, incomplete>>
    /\ LET k == order[it]
           v == data[k]
       IN IF v.video.kind = "none" \/ v.stream.kind = "none"
          THEN \* v[0]["14"] or stream["itag"] on None
               /\ Crash("iter_crash", "TypeError")
               /\ UNCHANGED <<it, out>>
          ELSE /\ out' = Append(out, Video(k, v.stream.fs, v.video.title,
                                           OffCover(v.video), v.timestamp))
               /\ it' = it + 1
               /\ UNCHANGED <<db_pc, db_error>>

-----------------------------------------------------------------------------
(* exo_decrypt.py: fnv1a.  Python's integers are unbounded: res << 40 of a   *)
(* 64-bit res has up to 104 bits, and the sum of the seven terms is masked   *)
(* to 64 bits afterwards.  Values are little-endian byte sequences, 14 bytes *)
(* wide before the mask and 8 bytes wide after it.                           *)

Pow2(n) == 2 ^ n

RECURSIVE XorBits(_, _, _)
XorBits(a, b, n) ==
    IF n = 0 THEN 0
    ELSE (((a % 2) + (b % 2)) % 2) + 2 * XorBits(a \div 2, b \div 2, n - 1)

\* a ^ b on bytes
Xor8(a, b) == XorBits(a, b, 8)

WideLen == 14
Zero64 == <<0, 0, 0, 0, 0, 0, 0, 0>>
\* 0xcbf29ce484222325, the offset basis of the published 64-bit FNV-1a
OffsetBasis == <<37, 35, 34, 132, 228, 156, 242, 203>>

Limb(x, i) == IF i >= 1 /\ i <= Len(x) THEN x[i] ELSE 0

\* x << s, WideLen bytes wide
Shl(x, s) ==
    LET q == s \div 8
        r == s % 8
    IN [i \in 1..WideLen |->
           ((Limb(x, i - q) * Pow2(r)) % 256) + (Limb(x, i - q - 1) \div Pow2(8 - r))]

RECURSIVE AddCarry(_, _, _, _)
AddCarry(x, y, i, carry) ==
    IF i > WideLen THEN <<>>
    ELSE LET t == Limb(x, i) + Limb(y, i) + carry
         IN <<t % 256>> \o AddCarry(x, y, i + 1, t \div 256)

\* x + y, WideLen bytes wide (no term of fnv1a's sum reaches 2^112)
Add(x, y) == AddCarry(x, y, 1, 0)

\* x & 0xffffffffffffffff
Mask64(x) == [i \in 1..8 |-> x[i]]

FnvInitMutant == OffsetBasis

\* res = 0
FnvInit == Zero64

\* the round with res << 32 in the place of res << 40
FnvRoundMutant(res, b) ==
    LET x == [res EXCEPT ![1] = Xor8(res[1], b)]
    IN Mask64(Add(x, Add(Shl(x, 1), Add(Shl(x, 4), Add(Shl(x, 5),
              Add(Shl(x, 7), Add(Shl(x, 8), Shl(x, 32))))))))

\* res ^= i; res = (res + (res << 1) + (res << 4) + (res << 5) + (res << 7)
\*                  + (res << 8) + (res << 40)) & 0xffffffffffffffff
FnvRound(res, b) ==
    LET x == [res EXCEPT ![1] = Xor8(res[1], b)]
    IN Mask64(Add(x, Add(Shl(x, 1), Add(Shl(x, 4), Add(Shl(x, 5),
              Add(Shl(x, 7), Add(Shl(x, 8), Shl(x, 40))))))))

RECURSIVE FnvFold(_, _, _)
FnvFold(d, i, res) ==
    IF i > Len(d) THEN res ELSE FnvFold(d, i + 1, FnvRound(res, d[i]))

\* fnv1a(data) as one value
fnv1a(d) == FnvFold(d, 1, FnvInit)

FnvBytes == {0, 97, 255}

\* one pass of the loop of fnv1a
FnvStep ==
    /\ fnv_pc = "loop"
    /\ fnv_i < Len(fnv_data)
    /\ fnv_res' = FnvRound(fnv_res, fnv_data[fnv_i + 1])
    /\ fnv_i' = fnv_i + 1
    /\ UNCHANGED <<fnv_data, fnv_pc>>

\* return res
FnvReturn ==
    /\ fnv_pc = "loop"
    /\ fnv_i = Len(fnv_data)
    /\ fnv_pc' = "done"
    /\ UNCHANGED <<fnv_data, fnv_i, fnv_res>>

IdleFnv ==
    /\ fnv_data = <<>>
    /\ fnv_i = 0
    /\ fnv_res = Zero64
    /\ fnv_pc = "idle"

-----------------------------------------------------------------------------
(* cache_parser.py.  AES is a library primitive: the block cipher is stood   *)
(* for by a keyed byte-wise permutation of the block; the CBC chaining, the  *)
(* PKCS7 padding and the layout of the file are those of the code.           *)

BlockSize == 16
HeaderLen == 8

Min(a, b) == IF a < b THEN a ELSE b

\* contents[a:b] of Python: 0-based, clipped to the buffer
Slice(c, a, b) == SubSeq(c, Min(a, Len(c)) + 1, Min(b, Len(c)))

XorBlock(x, y) == [i \in 1..Len(x) |-> Xor8(x[i], y[i])]

\* the block cipher under key k and its inverse
EncBlock(k, b) == [i \in 1..Len(b) |-> (b[i] + k[i]) % 256]
DecBlock(k, b) == [i \in 1..Len(b) |-> (b[i] - k[i] + 256) % 256]

RECURSIVE CbcDecrypt(_, _, _)
CbcDecrypt(k, prev, c) ==
    IF Len(c) = 0 THEN <<>>
    ELSE LET blk == SubSeq(c, 1, BlockSize)
         IN XorBlock(DecBlock(k, blk), prev)
            \o CbcDecrypt(k, blk, SubSeq(c, BlockSize + 1, Len(c)))

RECURSIVE CbcEncrypt(_, _, _)
CbcEncrypt(k, prev, p) ==
    IF Len(p) = 0 THEN <<>>
    ELSE LET blk == EncBlock(k, XorBlock(SubSeq(p, 1, BlockSize), prev))
         IN blk \o CbcEncrypt(k, blk, SubSeq(p, BlockSize + 1, Len(p)))

\* PKCS7: the last byte n is in 1..BlockSize and the last n bytes are all n
Unpad(p) ==
    LET n == IF Len(p) = 0 THEN 0 ELSE p[Len(p)]
    IN IF /\ Len(p) > 0
          /\ n >= 1
          /\ n <= BlockSize
          /\ \A i \in (Len(p) - n + 1)..Len(p) : p[i] = n
       THEN [ok |-> TRUE, plain |-> SubSeq(p, 1, Len(p) - n)]
       ELSE [ok |-> FALSE, plain |-> <<>>]

Pad(p) ==
    LET n == BlockSize - (Len(p) % BlockSize)
    IN p \o [i \in 1..n |-> n]

\* decrypt_cache_index: the first 16 bytes are the IV; the decryptor and the
\* unpadder raise ValueError on a partial block or a bad padding
decrypt_cache_index(ciphertext, key) ==
    LET iv == Slice(ciphertext, 0, 16)
        ct == Slice(ciphertext, 16, Len(ciphertext))
    IN IF Len(iv) < 16 \/ Len(ct) % BlockSize # 0
       THEN [ok |-> FALSE, plain |-> <<>>]
       ELSE Unpad(CbcDecrypt(key, iv, ct))

RECURSIVE BigEndianLE(_)
BigEndianLE(b) ==
    IF Len(b) = 0 THEN 0 ELSE b[1] + 256 * BigEndianLE(Tail(b))

RECURSIVE BigEndian(_)
\* the value of the bytes b, most significant first
BigEndian(b) ==
    IF Len(b) = 0 THEN 0
    ELSE b[Len(b)] + 256 * BigEndian(SubSeq(b, 1, Len(b) - 1))

\* struct.unpack_from('>L' or '>H', contents, offset): -1 stands for
\* struct.error, raised when fewer than n bytes are left at the offset
Unpack(c, off, n) ==
    IF off + n > Len(c) THEN -1 ELSE BigEndian(SubSeq(c, off + 1, off + n))

\* d[k] = v on a dict
Put(d, k, v) == [x \in (DOMAIN d) \cup {k} |-> IF x = k THEN v ELSE d[x]]

ParseFail == [ok |-> FALSE, off |-> 0, map |-> <<>>]

\* the inner loop of CacheIdxParser.__init__: n passes from offset off
RECURSIVE ParseItems(_, _, _, _)
ParseItems(c, off, n, items) ==
    IF n = 0 THEN [ok |-> TRUE, off |-> off, map |-> items]
    ELSE LET kl == Unpack(c, off, 2) IN
         IF kl < 0 THEN ParseFail
         ELSE LET o1 == off + 2
                  key2 == Slice(c, o1, o1 + kl)
                  o2 == o1 + kl
                  count_3 == Unpack(c, o2, 4)
              IN IF count_3 < 0 THEN ParseFail
                 ELSE LET o3 == o2 + 4
                          values == Slice(c, o3, o3 + count_3)
                      IN ParseItems(c, o3 + count_3, n - 1, Put(items, key2, values))

\* the outer loop of CacheIdxParser.__init__: n passes from offset off
RECURSIVE ParseEntries(_, _, _, _)
ParseEntries(c, off, n, entries) ==
    IF n = 0 THEN [ok |-> TRUE, off |-> off, map |-> entries]
    ELSE LET id == Unpack(c, off, 4) IN
         IF id < 0 THEN ParseFail
         ELSE LET o1 == off + 4
                  kl == Unpack(c, o1, 2)
              IN IF kl < 0 THEN ParseFail
                 ELSE LET o2 == o1 + 2
                          key == Slice(c, o2, o2 + kl)
                          o3 == o2 + kl
                          count_2 == Unpack(c, o3, 4)
                      IN IF count_2 < 0 THEN ParseFail
                         ELSE LET sub == ParseItems(c, o3 + 4, count_2, <<>>)
                              IN IF ~sub.ok THEN ParseFail
                                 ELSE ParseEntries(c, sub.off, n - 1,
                                          Put(entries, key, [id |-> id, items |-> sub.map]))

\* the parse of CacheIdxParser.__init__ after the decryption
ParseIndex(c) ==
    LET count == Unpack(c, 0, 4)
    IN IF count < 0 THEN ParseFail ELSE ParseEntries(c, 4, count, <<>>)

\* CacheIdxParser(contents, key)
CiLoad ==
    /\ ci_pc = "new"
    /\ LET d == decrypt_cache_index(Slice(ci_file, HeaderLen, Len(ci_file)), ci_key) IN
       IF ~d.ok
       THEN /\ ci_pc' = "error"
            /\ ci_error' = "ValueError"
            /\ UNCHANGED <<ci_plain, ci_offset, ci_entries>>
       ELSE LET r == ParseIndex(d.plain) IN
            IF ~r.ok
            THEN /\ ci_pc' = "error"
                 /\ ci_error' = "struct.error"
                 /\ UNCHANGED <<ci_plain, ci_offset, ci_entries>>
            ELSE /\ ci_pc' = "loaded"
                 /\ ci_plain' = d.plain
                 /\ ci_offset' = r.off
                 /\ ci_entries' = r.map
                 /\ UNCHANGED ci_error
    /\ UNCHANGED <<ci_body, ci_tamper, ci_file, ci_key, ci_result>>

GetItemMutant(entries, key) ==
    IF key \in DOMAIN entries
    THEN [kind |-> "id", key |-> key, id |-> entries[key].id]
    ELSE [kind |-> "id", key |-> key, id |-> 0]

\* self.entries[key]['id']: KeyError when the key is not in the dict
GetItem(entries, key) ==
    IF key \in DOMAIN entries
    THEN [kind |-> "id", key |-> key, id |-> entries[key].id]
    ELSE [kind |-> "KeyError", key |-> key, id |-> -1]

CacheKeys == {<<97>>, <<98>>}
LookupKeys == CacheKeys \cup {<<99>>}

\* CacheIdxParser.__getitem__(key)
CiGet(key) ==
    /\ ci_pc = "loaded"
    /\ ci_result' = GetItem(ci_entries, key)
    /\ UNCHANGED <<ci_body, ci_tamper, ci_file, ci_key, ci_pc, ci_error, ci_plain,
                   ci_offset, ci_entries>>

(* The index files the parser is run on: the encoding (layout of lines 23-33
   of cache_parser.py) of a list of entries, padded and encrypted, possibly
   cut short, extended or corrupted. *)

EntryIds == {1, 258}
SubKeys == {<<1>>, <<2>>}
SubValues == {<<>>, <<7, 8>>}

\* an index body as a flat list: an entry header, then its subkey/value pairs
BodyItems ==
    [type : {"entry"}, id : EntryIds, key : CacheKeys]
    \cup [type : {"sub"}, key : SubKeys, value : SubValues]

Bodies ==
    {b \in UNION {[1..n -> BodyItems] : n \in 0..MaxItems} :
        Len(b) > 0 => b[1].type = "entry"}

U16(n) == <<n \div 256, n % 256>>
U32(n) == <<n \div 16777216, (n \div 65536) % 256, (n \div 256) % 256, n % 256>>

\* the number of pairs that follow the entry header at position i
RECURSIVE SubCount(_, _)
SubCount(b, i) ==
    IF i + 1 > Len(b) \/ b[i + 1].type = "entry" THEN 0 ELSE 1 + SubCount(b, i + 1)

EntryCount(b) == Cardinality({i \in 1..Len(b) : b[i].type = "entry"})

RECURSIVE EncodeFrom(_, _)
EncodeFrom(b, i) ==
    IF i > Len(b) THEN <<>>
    ELSE (IF b[i].type = "entry"
          THEN U32(b[i].id) \o U16(Len(b[i].key)) \o b[i].key \o U32(SubCount(b, i))
          ELSE U16(Len(b[i].key)) \o b[i].key \o U32(Len(b[i].value)) \o b[i].value)
         \o EncodeFrom(b, i + 1)

Encode(b) == U32(EntryCount(b)) \o EncodeFrom(b, 1)

Tampers == {"none", "truncate", "extend", "corrupt"}

FileKey == [i \in 1..BlockSize |-> (7 * i) % 256]
FileIv == [i \in 1..BlockSize |-> (200 + 5 * i) % 256]
FileHeader == [i \in 1..HeaderLen |-> 0]

\* the file written from body b: with "truncate" the plaintext lacks its last
\* byte, with "extend" a byte follows it, with "corrupt" the last byte of the
\* ciphertext is changed
IndexFile(b, t) ==
    LET e == Encode(b)
        plain == IF t = "truncate" THEN SubSeq(e, 1, Len(e) - 1)
                 ELSE IF t = "extend" THEN Append(e, 0)
                 ELSE e
        ct == CbcEncrypt(FileKey, FileIv, Pad(plain))
        ct2 == IF t = "corrupt"
               THEN [ct EXCEPT ![Len(ct)] = (ct[Len(ct)] + 128) % 256]
               ELSE ct
    IN FileHeader \o FileIv \o ct2

IdleCi ==
    /\ ci_body = <<>>
    /\ ci_tamper = "none"
    /\ ci_file = <<>>
    /\ ci_key = <<>>
    /\ ci_pc = "idle"
    /\ ci_error = ""
    /\ ci_plain = <<>>
    /\ ci_offset = 0
    /\ ci_entries = <<>>
    /\ ci_result = [kind |-> "none", key |-> <<>>, id |-> -1]

-----------------------------------------------------------------------------
(* cli.py.  The Videos come from the two sources; here a Video is its place  *)
(* in the chained list and its timestamp (NoTimestamp for None).  What the   *)
(* device, the cache index and the file system answer is chosen when the     *)
(* code asks.  A filename is its length and whether it holds characters the  *)
(* file system refuses; ext is its length and whether it starts with a dot.  *)

NoTimestamp == -1
VideoTimestamps == {NoTimestamp, 1, 2}
ExtLen == 2
HashLen == 4

MVideo(i, ts) == [n |-> i, timestamp |-> ts]

NoFn == [len |-> 0, bad |-> FALSE, ext_len |-> 0, ext_dot |-> FALSE]
NoHist == [processed |-> <<>>, printed |-> <<>>, lookups |-> <<>>,
           downloads |-> <<>>, opened |-> <<>>, written |-> <<>>,
           tagged |-> <<>>, skipped |-> <<>>, exists |-> <<>>,
           toolong |-> <<>>]

\* insertion into a list sorted by timestamp, after the elements that are
\* not larger (sorted is stable)
RECURSIVE InsertByTs(_, _)
InsertByTs(s, v) ==
    IF Len(s) = 0 THEN <<v>>
    ELSE IF v.timestamp < s[1].timestamp THEN <<v>> \o s
    ELSE <<s[1]>> \o InsertByTs(Tail(s), v)

RECURSIVE SortByTs(_, _)
SortByTs(s, i) ==
    IF i = 0 THEN <<>> ELSE InsertByTs(SortByTs(s, i - 1), s[i])

\* sorted(videos, key=lambda v: v.timestamp): comparing None raises TypeError,
\* and every element of a list of two or more is compared
SortRaises(s) ==
    Len(s) >= 2 /\ \E i \in 1..Len(s) : s[i].timestamp = NoTimestamp

MCrash(err) ==
    /\ m_pc' = "crash"
    /\ m_error' = err

Note(h, field, n) == [h EXCEPT ![field] = Append(@, n)]

\* main up to the loop: the device, ffmpeg, the two databases, the cache index
MainSetup(device_ok, ffmpeg_ok, idx_ok) ==
    /\ m_pc = "start"
    /\ UNCHANGED <<m_videos, m_sorted, m_idx, m_list, m_dest_ok, m_fn, m_data, m_hist>>
    /\ IF ~device_ok
       THEN \* return 1
            /\ m_pc' = "done"
            /\ UNCHANGED <<m_error, m_metadata, m_cache_idx>>
       ELSE /\ m_metadata' = (m_metadata /\ ffmpeg_ok)
            /\ IF m_list
               THEN /\ m_cache_idx' = "None"
                    /\ m_pc' = "sort"
                    /\ UNCHANGED m_error
               ELSE IF idx_ok
               THEN /\ m_cache_idx' = "loaded"
                    /\ m_pc' = "sort"
                    /\ UNCHANGED m_error
               ELSE \* read_remote_file or CacheIdxParser raised
                    /\ MCrash("cache_idx")
                    /\ UNCHANGED m_cache_idx

\* videos = list(chain(offline_db, entity_store)); sorted(videos, ...)
MainSort ==
    /\ m_pc = "sort"
    /\ UNCHANGED <<m_videos, m_idx, m_list, m_metadata, m_dest_ok, m_cache_idx,
                   m_fn, m_data, m_hist>>
    /\ IF SortRaises(m_videos)
       THEN /\ MCrash("TypeError")
            /\ UNCHANGED m_sorted
       ELSE /\ m_sorted' = SortByTs(m_videos, Len(m_videos))
            /\ m_pc' = "loop"
            /\ UNCHANGED m_error

ListReturnsMutant == FALSE

\* if args.list: return
ListReturns == m_list

\* process_video up to the call of find_filename (lines 80-99)
PvBegin(match, len, bad, dot) ==
    /\ m_pc = "loop"
    /\ m_idx <= Len(m_sorted)
    /\ UNCHANGED <<m_videos, m_sorted, m_error, m_list, m_metadata, m_dest_ok,
                   m_cache_idx>>
    /\ LET v == m_sorted[m_idx].n
           h1 == Note(m_hist, "processed", v)
       IN IF ~match
          THEN /\ m_idx' = m_idx + 1
               /\ m_hist' = h1
               /\ UNCHANGED <<m_pc, m_fn, m_data>>
          ELSE IF ListReturns
          THEN /\ m_idx' = m_idx + 1
               /\ m_hist' = Note(h1, "printed", v)
               /\ UNCHANGED <<m_pc, m_fn, m_data>>
          ELSE /\ m_pc' = "find"
               /\ m_fn' = [len |-> len, bad |-> bad,
                           ext_len |-> IF dot THEN ExtLen ELSE 0, ext_dot |-> dot]
               /\ m_data' = FALSE
               /\ m_hist' = Note(h1, "printed", v)
               /\ UNCHANGED m_idx

\* download_and_decrypt_video, called by get_data_fn when data is empty
Download(present, remote_ok) ==
    IF ~present THEN "KeyError"
    ELSE IF ~remote_ok THEN "FileNotFoundError"
    ELSE "ok"

NeedsDownloadMutant(have) == TRUE

\* if not data:
NeedsDownload(have) == ~have

\* get_data_fn: the outcome, given whether the data is already held
GetData(have, present, remote_ok) ==
    IF ~NeedsDownload(have) THEN "ok" ELSE Download(present, remote_ok)

\* the history after get_data_fn
GetDataHist(h, v, have, present) ==
    IF ~NeedsDownload(have) THEN h
    ELSE LET h1 == Note(h, "lookups", v)
         IN IF present THEN Note(h1, "downloads", v) ELSE h1

Max0(a) == IF a < 0 THEN 0 ELSE a

TooLong(fn) == fn.len + fn.ext_len > NameMax

\* one pass of the loop of find_filename; exists is os.path.exists's answer
\* for a path that can be looked up, denied an OSError other than the two
\* the code handles
FindTry(exists, denied, present, remote_ok) ==
    /\ m_pc = "find"
    /\ UNCHANGED <<m_videos, m_sorted, m_list, m_metadata, m_dest_ok, m_cache_idx>>
    /\ LET v == m_sorted[m_idx].n
           reachable == m_dest_ok /\ ~m_fn.bad /\ ~TooLong(m_fn)
       IN IF reachable /\ exists
          THEN \* return None, full_filename; process_video returns
               /\ m_pc' = "loop"
               /\ m_idx' = m_idx + 1
               /\ m_hist' = Note(Note(m_hist, "exists", v), "skipped", v)
               /\ UNCHANGED <<m_error, m_fn, m_data>>
          ELSE IF TooLong(m_fn)
          THEN \* ENAMETOOLONG
               IF m_fn.ext_dot
               THEN LET r == GetData(m_data, present, remote_ok) IN
                    /\ m_hist' = GetDataHist(Note(m_hist, "toolong", v), v,
                                              m_data, present)
                    /\ IF r = "ok"
                       THEN /\ m_data' = TRUE
                            /\ m_fn' = [m_fn EXCEPT !.ext_len = @ + HashLen,
                                                    !.ext_dot = FALSE,
                                                    !.len = Max0(@ - 5) + 1]
                            /\ UNCHANGED <<m_pc, m_error, m_idx>>
                       ELSE /\ MCrash(r)
                            /\ UNCHANGED <<m_idx, m_fn, m_data>>
               ELSE /\ m_fn' = [m_fn EXCEPT !.len = Max0(@ - 2) + 1]
                    /\ m_hist' = IF m_hist.toolong # <<>>
                                    /\ m_hist.toolong[Len(m_hist.toolong)] = v
                                 THEN m_hist
                                 ELSE Note(m_hist, "toolong", v)
                    /\ UNCHANGED <<m_pc, m_error, m_idx, m_data>>
          ELSE IF ~m_dest_ok \/ m_fn.bad
          THEN \* FileNotFoundError: filename = re.sub(r'[^\w \-]', '_', filename)
               /\ m_fn' = [m_fn EXCEPT !.bad = FALSE]
               /\ UNCHANGED <<m_pc, m_error, m_idx, m_data, m_hist>>
          ELSE IF denied
          THEN /\ MCrash("OSError")
               /\ UNCHANGED <<m_idx, m_fn, m_data, m_hist>>
          ELSE \* return open(full_filename, 'wb'), full_filename
               /\ m_pc' = "write"
               /\ m_hist' = Note(m_hist, "opened", v)
               /\ UNCHANGED <<m_error, m_idx, m_fn, m_data>>

\* process_video after find_filename returned a file (lines 102-106)
PvWrite(present, remote_ok) ==
    /\ m_pc = "write"
    /\ UNCHANGED <<m_videos, m_sorted, m_list, m_metadata, m_dest_ok, m_cache_idx, m_fn>>
    /\ LET v == m_sorted[m_idx].n
           r == GetData(m_data, present, remote_ok)
           h1 == GetDataHist(m_hist, v, m_data, present)
       IN IF r = "ok"
          THEN /\ m_data' = TRUE
               /\ m_hist' = IF m_metadata
                            THEN Note(Note(h1, "written", v), "tagged", v)
                            ELSE Note(h1, "written", v)
               /\ m_pc' = "loop"
               /\ m_idx' = m_idx + 1
               /\ UNCHANGED m_error
          ELSE /\ MCrash(r)
               /\ m_hist' = h1
               /\ UNCHANGED <<m_idx, m_data>>

\* the loop of main ends
MainEnd ==
    /\ m_pc = "loop"
    /\ m_idx > Len(m_sorted)
    /\ m_pc' = "done"
    /\ UNCHANGED <<m_videos, m_sorted, m_idx, m_error, m_list, m_metadata,
                   m_dest_ok, m_cache_idx, m_fn, m_data, m_hist>>

IdleMain ==
    /\ m_videos = <<>>
    /\ m_sorted = <<>>
    /\ m_idx = 1
    /\ m_pc = "idle"
    /\ m_error = ""
    /\ m_list = FALSE
    /\ m_metadata = FALSE
    /\ m_dest_ok = TRUE
    /\ m_cache_idx = "unset"
    /\ m_fn = NoFn
    /\ m_data = FALSE
    /\ m_hist = NoHist

-----------------------------------------------------------------------------
(* The specification of the two sources *)

IdleDb ==
    /\ mode = "idle"
    /\ db_pc = "idle"
    /\ db_error = ""
    /\ data = [k \in Ids |-> NoEntry]
    /\ order = <<>>
    /\ nrows = 0
    /\ it = 1
    /\ out = <<>>
    /\ printed = 0
    /\ rows_ok = 0
    /\ incomplete = {}

InitDbCore ==
    /\ mode \in {"entity_store", "offline_db"}
    /\ db_pc = "load"
    /\ db_error = ""
    /\ data = [k \in Ids |-> NoEntry]
    /\ order = <<>>
    /\ nrows = 0
    /\ it = 1
    /\ out = <<>>
    /\ printed = 0
    /\ rows_ok = 0
    /\ incomplete = {}

InitDb == InitDbCore /\ IdleFnv /\ IdleCi /\ IdleMain

NextDb ==
    \/ (\E row \in EsRows : EsLoadRow(row)) /\ UNCHANGED <<fnvvars, civars, mvars>>
    \/ EsLoadEnd /\ UNCHANGED <<fnvvars, civars, mvars>>
    \/ EsIterStep /\ UNCHANGED <<fnvvars, civars, mvars>>
    \/ (\E row \in OffRows : OffLoadRow(row)) /\ UNCHANGED <<fnvvars, civars, mvars>>
    \/ OffLoadEnd /\ UNCHANGED <<fnvvars, civars, mvars>>
    \/ OffIterStep /\ UNCHANGED <<fnvvars, civars, mvars>>
    \/ DbIterEnd /\ UNCHANGED <<fnvvars, civars, mvars>>

SpecDb == InitDb /\ [][NextDb]_vars

-----------------------------------------------------------------------------
(* The specification of fnv1a: the input is any byte string of up to        *)
(* MaxData bytes over FnvBytes                                               *)

InitFnvCore ==
    /\ fnv_data \in UNION {[1..n -> FnvBytes] : n \in 0..MaxData}
    /\ fnv_i = 0
    /\ fnv_res = FnvInit
    /\ fnv_pc = "loop"

InitFnv == InitFnvCore /\ IdleDb /\ IdleCi /\ IdleMain

NextFnv ==
    \/ FnvStep /\ UNCHANGED <<dbvars, civars, mvars>>
    \/ FnvReturn /\ UNCHANGED <<dbvars, civars, mvars>>

SpecFnv == InitFnv /\ [][NextFnv]_vars

-----------------------------------------------------------------------------
(* The specification of the loop of fnv1a entered at any pass: the          *)
(* accumulator is any of the sampled 64-bit values, the bytes left to hash  *)
(* are any byte string of up to MaxData bytes over FnvBytes                 *)

\* 64-bit accumulators: the values with 0xff in some of the bytes 1, 2, 6
\* and 8 and 0x00 elsewhere, 2^64-1, and the offset basis
Accumulators ==
    {[i \in 1..8 |-> IF i \in S THEN 255 ELSE 0] : S \in SUBSET {1, 2, 6, 8}}
    \cup {[i \in 1..8 |-> 255], OffsetBasis}

InitFnvRoundCore ==
    /\ fnv_data \in UNION {[1..n -> FnvBytes] : n \in 0..MaxData}
    /\ fnv_i = 0
    /\ fnv_res \in Accumulators
    /\ fnv_pc = "loop"

InitFnvRound == InitFnvRoundCore /\ IdleDb /\ IdleCi /\ IdleMain

SpecFnvRound == InitFnvRound /\ [][NextFnv]_vars

-----------------------------------------------------------------------------
(* The specification of the cache index: a file is loaded and keys are      *)
(* looked up                                                                 *)

InitCiCore ==
    /\ ci_body \in Bodies
    /\ ci_tamper \in Tampers
    /\ ci_file = IndexFile(ci_body, ci_tamper)
    /\ ci_key = FileKey
    /\ ci_pc = "new"
    /\ ci_error = ""
    /\ ci_plain = <<>>
    /\ ci_offset = 0
    /\ ci_entries = <<>>
    /\ ci_result = [kind |-> "none", key |-> <<>>, id |-> -1]

InitCache == InitCiCore /\ IdleDb /\ IdleFnv /\ IdleMain

NextCache ==
    \/ CiLoad /\ UNCHANGED <<dbvars, fnvvars, mvars>>
    \/ (\E key \in LookupKeys : CiGet(key)) /\ UNCHANGED <<dbvars, fnvvars, mvars>>

SpecCache == InitCache /\ [][NextCache]_vars

-----------------------------------------------------------------------------
(* The specification of a run of cli.main over up to MaxVideos Videos *)

InitMainCore ==
    /\ \E n \in 0..MaxVideos : \E ts \in [1..n -> VideoTimestamps] :
          m_videos = [i \in 1..n |-> MVideo(i, ts[i])]
    /\ m_sorted = <<>>
    /\ m_idx = 1
    /\ m_pc = "start"
    /\ m_error = ""
    /\ m_list \in BOOLEAN
    /\ m_metadata \in BOOLEAN
    /\ m_dest_ok \in BOOLEAN
    /\ m_cache_idx = "unset"
    /\ m_fn = NoFn
    /\ m_data = FALSE
    /\ m_hist = NoHist

InitMain == InitMainCore /\ IdleDb /\ IdleFnv /\ IdleCi

NextMain ==
    \/ (\E device_ok, ffmpeg_ok, idx_ok \in BOOLEAN :
            MainSetup(device_ok, ffmpeg_ok, idx_ok))
        /\ UNCHANGED <<dbvars, fnvvars, civars>>
    \/ MainSort /\ UNCHANGED <<dbvars, fnvvars, civars>>
    \/ (\E match, bad, dot \in BOOLEAN : \E len \in 0..MaxName :
            PvBegin(match, len, bad, dot))
        /\ UNCHANGED <<dbvars, fnvvars, civars>>
    \/ (\E exists, denied, present, remote_ok \in BOOLEAN :
            FindTry(exists, denied, present, remote_ok))
        /\ UNCHANGED <<dbvars, fnvvars, civars>>
    \/ (\E present, remote_ok \in BOOLEAN : PvWrite(present, remote_ok))
        /\ UNCHANGED <<dbvars, fnvvars, civars>>
    \/ MainEnd /\ UNCHANGED <<dbvars, fnvvars, civars>>

SpecMain == InitMain /\ [][NextMain]_vars

\* the run under the scheduling of one Python thread: a step that can be
\* taken is taken.  A pass of a loop that changes nothing is no step: a
\* behaviour that stays in one state for ever is the loop retrying for ever.
SpecMainLive == SpecMain /\ WF_vars(NextMain)

-----------------------------------------------------------------------------
(* Claims about the two sources (checked under SpecDb) *)

CrashStates == {"load_crash", "iter_crash"}
EmittedIds == {out[n].id : n \in 1..Len(out)}
EsComplete(k) ==
    /\ data[k].kind = "entry"
    /\ data[k].details.kind = "details"
    /\ data[k].cache.kind = "cache"
OffDecoded(k) ==
    /\ data[k].kind = "entry"
    /\ data[k].video.kind = "details"
    /\ data[k].stream.kind = "stream"
\* the cover candidates stored for an emitted identifier
CoversOf(k) ==
    IF mode = "entity_store" THEN data[k].details.covers ELSE data[k].video.covers

C2_BadRowDropped ==
    mode = "offline_db" =>
        /\ db_pc \notin CrashStates
        /\ rows_ok < nrows => printed >= 1

\* C3 (as claimed): when iteration of Source B ends, the number of Videos
\* emitted is the number of joined rows that decoded.
C3_OneVideoPerRow ==
    (mode = "offline_db" /\ db_pc = "done") => Len(out) = rows_ok

\* u is the url of a candidate of s of the largest size, the first such in s
FirstLargest(s, u) ==
    \E i \in 1..Len(s) :
        /\ s[i].url = u
        /\ \A j \in 1..Len(s) : s[j].size <= s[i].size
        /\ \A j \in 1..(i - 1) : s[j].size < s[i].size

\* C4: in both sources the cover_url of every emitted Video is the url of a
\* candidate of the largest size among the identifier's cover candidates,
\* and of the first such candidate when several share that size.
C4_CoverIsFirstLargest ==
    \A n \in 1..Len(out) :
        FirstLargest(CoversOf(out[n].id).items, out[n].cover_url)

\* Videos were emitted from two candidates of the same size (the first one's
\* url chosen) and from a smaller candidate followed by a larger one
C4_Witness ==
    /\ \E n \in 1..Len(out) :
          LET s == CoversOf(out[n].id).items
          IN Len(s) = 2 /\ s[1].size = s[2].size /\ out[n].cover_url = s[1].url
    /\ \E n \in 1..Len(out) :
          LET s == CoversOf(out[n].id).items
          IN Len(s) = 2 /\ s[1].size < s[2].size /\ out[n].cover_url = s[2].url

\* C5 (as claimed): an entry whose cover field holds a single candidate is
\* accepted in both sources: iteration does not raise at such an entry, and
\* once iteration has passed it a Video with that candidate's url was emitted.
C5_SingleCandidateAccepted ==
    \A p \in 1..Len(order) :
        LET k == order[p]
            decoded == IF mode = "entity_store" THEN EsComplete(k) ELSE OffDecoded(k)
        IN (db_pc \in {"iter", "done", "iter_crash"} /\ decoded /\ ~CoversOf(k).list) =>
              /\ ~(db_pc = "iter_crash" /\ it = p)
              /\ p < it => \E n \in 1..Len(out) :
                     /\ out[n].id = k
                     /\ out[n].cover_url = CoversOf(k).items[1].url

\* C11 (as claimed): while Source A loads, a row whose key or record does not
\* decode, or whose record does not match its field hint, is skipped: the
\* constructor does not raise, so that the later rows are still processed.
C11_BadRowSkipped ==
    mode = "entity_store" => db_pc # "load_crash"

-----------------------------------------------------------------------------
(* Claims about fnv1a (checked under SpecFnv) *)

FnvPrime == <<179, 1, 0, 0, 0, 1, 0, 0>>

\* the sum of x[j] * y[i - j + 1] over j in 1..n
RECURSIVE Convolve(_, _, _, _)
Convolve(x, y, i, n) ==
    IF n = 0 THEN 0 ELSE x[n] * y[i - n + 1] + Convolve(x, y, i, n - 1)

RECURSIVE MulCarry(_, _, _, _)
MulCarry(x, y, i, carry) ==
    IF i > 8 THEN <<>>
    ELSE LET t == Convolve(x, y, i, i) + carry
         IN <<t % 256>> \o MulCarry(x, y, i + 1, t \div 256)

\* (x * y) mod 2^64 by long multiplication
MulMod64(x, y) == MulCarry(x, y, 1, 0)

IsU64(x) == Len(x) = 8 /\ \A i \in 1..8 : x[i] \in 0..255

\* C12: one pass of the loop of fnv1a takes the accumulator res and the byte b
\* to ((res XOR b) * 0x100000001b3) mod 2^64, a value of 0..2^64-1.
C12_RoundIsMultiply ==
    [][fnv_i' = fnv_i + 1 =>
          LET b == fnv_data[fnv_i + 1]
              x == [fnv_res EXCEPT ![1] = Xor8(fnv_res[1], b)]
          IN fnv_res' = MulMod64(x, FnvPrime) /\ IsU64(fnv_res')]_vars

\* a pass has acted on the accumulator 2^64-1 and the byte 97, where the sum
\* of the shifted terms exceeds 64 bits
C12_Witness ==
    /\ fnv_pc = "loop"
    /\ fnv_i = 1
    /\ fnv_data[1] = 97
    /\ fnv_res = MulMod64(<<158, 255, 255, 255, 255, 255, 255, 255>>, FnvPrime)
    /\ fnv_res # Zero64

-----------------------------------------------------------------------------
(* Claims about the cache index (checked under SpecCache) *)

\* C7 (as claimed): a parser object exists only if the parse consumed the
\* decrypted buffer exactly to its end; a length that reads past the end, or
\* bytes left over, make the constructor raise.
C7_ExactConsumption ==
    ci_pc = "loaded" => ci_offset = Len(ci_plain)

EntryPositions(b) == {i \in 1..Len(b) : b[i].type = "entry"}
SubPositions(b, i) == (i + 1)..(i + SubCount(b, i))

DistinctKeys(b) ==
    \A i, j \in EntryPositions(b) : i # j => b[i].key # b[j].key

DistinctSubKeys(b) ==
    \A i \in EntryPositions(b) :
        \A j, l \in SubPositions(b, i) : j # l => b[j].key # b[l].key

\* the loaded map is the map the file was written from
SameMap(b, entries) ==
    /\ Cardinality(DOMAIN entries) = EntryCount(b)
    /\ \A i \in EntryPositions(b) :
          /\ b[i].key \in DOMAIN entries
          /\ entries[b[i].key].id = b[i].id
          /\ Cardinality(DOMAIN entries[b[i].key].items) = SubCount(b, i)
          /\ \A j \in SubPositions(b, i) :
                /\ b[j].key \in DOMAIN entries[b[i].key].items
                /\ entries[b[i].key].items[b[j].key] = b[j].value

\* C8 (as claimed): loading the encrypted encoding of entries with pairwise
\* distinct cache keys succeeds and gives a map with entry_count keys, each
\* key mapped to its numeric id and to a secondary map of exactly its
\* sub_count pairs.
C8_RoundTrip ==
    (ci_tamper = "none" /\ ci_pc # "new" /\ DistinctKeys(ci_body)) =>
        (ci_pc = "loaded" /\ SameMap(ci_body, ci_entries))

\* C8 (amended): the same, for entries whose subkeys are pairwise distinct
\* within each entry as well.
C8_RoundTripDistinctSubKeys ==
    (ci_tamper = "none" /\ ci_pc # "new" /\ DistinctKeys(ci_body)
        /\ DistinctSubKeys(ci_body)) =>
        (ci_pc = "loaded" /\ SameMap(ci_body, ci_entries))

\* a file of two entries with different keys, one of them with a pair and
\* an id of more than one byte, was loaded
C8_Witness ==
    /\ ci_tamper = "none"
    /\ ci_pc = "loaded"
    /\ DistinctKeys(ci_body)
    /\ DistinctSubKeys(ci_body)
    /\ Cardinality(EntryPositions(ci_body)) = 2
    /\ \E i \in EntryPositions(ci_body) :
          ci_body[i].id = 258 /\ SubCount(ci_body, i) = 1

\* C9: on a loaded index a lookup of an absent key raises KeyError (it
\* returns no id), a lookup of a present key returns the id stored for that
\* key, and no step changes the entry map once it is loaded.
C9_Lookup ==
    /\ [](ci_result.kind # "none" =>
            IF ci_result.key \in DOMAIN ci_entries
            THEN ci_result.kind = "id" /\ ci_result.id = ci_entries[ci_result.key].id
            ELSE ci_result.kind = "KeyError")
    /\ [][ci_pc = "loaded" => ci_entries' = ci_entries]_vars

\* an absent key was looked up on a loaded index that holds another key
C9_Witness ==
    /\ ci_pc = "loaded"
    /\ ci_result.kind = "KeyError"
    /\ ci_result.key \notin DOMAIN ci_entries
    /\ DOMAIN ci_entries # {}

-----------------------------------------------------------------------------
(* Claims about the run of main (checked under SpecMain) *)

\* C10 (as claimed): a video whose cache_key is not in the cache index is
\* skipped and the run goes on: the KeyError of the lookup never ends the
\* run.
C10_AbsentKeySkipsVideo ==
    ~(m_pc = "crash" /\ m_error = "KeyError")

\* C13 (as claimed): find_filename terminates: whenever the run is inside its
\* retry loop, the loop is eventually left, by a return or by an exception.
C13_FindFilenameTerminates ==
    (m_pc = "find") ~> (m_pc # "find")

InSeq(s, x) == \E i \in 1..Len(s) : s[i] = x
Count(s, x) == Cardinality({i \in 1..Len(s) : s[i] = x})

\* C14: a video whose candidate output path exists is not opened for
\* writing, written or tagged, and process_video has returned for it; unless
\* a name-too-long error came first, its media was not looked up or
\* downloaded; and no video's media is downloaded more than once.
C14_ExistingPathKept ==
    /\ \A i \in 1..Len(m_sorted) :
          LET v == m_sorted[i].n
          IN InSeq(m_hist.exists, v) =>
                /\ ~InSeq(m_hist.opened, v)
                /\ ~InSeq(m_hist.written, v)
                /\ ~InSeq(m_hist.tagged, v)
                /\ i < m_idx
                /\ ~InSeq(m_hist.toolong, v) =>
                      ~InSeq(m_hist.lookups, v) /\ ~InSeq(m_hist.downloads, v)
    /\ \A i \in 1..Len(m_sorted) :
          /\ Count(m_hist.lookups, m_sorted[i].n) <= 1
          /\ Count(m_hist.downloads, m_sorted[i].n) <= 1

\* one video was found to exist at the first attempt and passed over
\* without a download, another was written after its name was shortened
\* (get_data_fn called twice, one download)
C14_Witness ==
    /\ \E v \in 1..MaxVideos :
          /\ InSeq(m_hist.exists, v)
          /\ ~InSeq(m_hist.toolong, v)
          /\ ~InSeq(m_hist.downloads, v)
    /\ \E v \in 1..MaxVideos :
          /\ InSeq(m_hist.toolong, v)
          /\ InSeq(m_hist.written, v)
          /\ Count(m_hist.downloads, v) = 1

\* C15: in list mode the cache index is never fetched or parsed (cache_idx
\* is None once main has set it), and no video is taken further than the
\* print: no lookup in the cache index, no download, no output file, no tag.
C15_ListOnlyPrints ==
    m_list =>
        /\ m_cache_idx # "loaded"
        /\ m_pc \in {"sort", "loop"} => m_cache_idx = "None"
        /\ m_pc \notin {"find", "write"}
        /\ m_hist.lookups = <<>>
        /\ m_hist.downloads = <<>>
        /\ m_hist.opened = <<>>
        /\ m_hist.written = <<>>
        /\ m_hist.tagged = <<>>
        /\ m_hist.exists = <<>>
        /\ \A i \in 1..Len(m_hist.printed) : InSeq(m_hist.processed, m_hist.printed[i])

\* a run in list mode, asked for tags as well, has ended after printing
\* two videos
C15_Witness ==
    /\ m_list
    /\ m_metadata
    /\ m_pc = "done"
    /\ m_cache_idx = "None"
    /\ Len(m_hist.printed) = 2

\* the timestamp of the video at place n of the chained list
TsOf(n) == m_videos[n].timestamp

\* C16 (as claimed): main processes the Videos in non-decreasing timestamp
\* order, Videos without a timestamp included: ordering them does not raise,
\* no Video is processed before one with a smaller timestamp, and a run that
\* reaches the end of the loop has processed every Video exactly once.
C16_TimestampOrder ==
    /\ ~(m_pc = "crash" /\ m_error = "TypeError")
    /\ \A i, j \in 1..Len(m_hist.processed) :
          i < j => TsOf(m_hist.processed[i]) <= TsOf(m_hist.processed[j])
    /\ (m_pc = "done" /\ m_cache_idx # "unset") =>
          \A n \in 1..Len(m_videos) : Count(m_hist.processed, n) = 1

=============================================================================
